---- MODULE Spec2Model ----
(***************************************************************************)
(* Model of mars_mission_computer.py: the MissionComputer class with its   *)
(* two reporters, get_mission_computer_info and get_mission_computer_load, *)
(* and the __main__ driver that calls them in sequence.                    *)
(*                                                                         *)
(* The platform and psutil facilities are the environment: each query      *)
(* either returns one value of its documented result set or raises an      *)
(* Exception.  print() appends one entry to the console.                   *)
(*                                                                         *)
(* Numbers.  TLC integers are 32 bits wide, so a byte count is kept as two *)
(* limbs [hi, lo] meaning hi * Chunk + lo with 0 <= lo < Chunk, and a      *)
(* Python float that carries p decimal places is kept as the integer       *)
(* scaled = value * 10^p together with p.  Dictionary keys are written in  *)
(* ASCII: OS, OS_version, CPU_type, CPU_core_count, Memory_size_GB,        *)
(* CPU_usage_percent, Memory_usage_percent.                                *)
(***************************************************************************)
EXTENDS Integers, Sequences, FiniteSets

VARIABLES
    pc,        \* position of the single thread of control
    ret_to,    \* where the running reporter call returns to
    self,      \* attributes of the MissionComputer instance
    answers,   \* what the queries of the running call returned or raised, in order
    snapshot,  \* the local variable info / load of the running call
    exc,       \* the exception bound to e in the except clause
    console,   \* everything printed so far
    base,      \* length of the console when the running call was entered
    ret,       \* value returned by the last completed call
    history    \* completed calls: reporter, answers, printed entries, result

vars == <<pc, ret_to, self, answers, snapshot, exc, console, base, ret, history>>

----
\* Bounds of the model

MaxHi == 4
MaxCalls == 3

----
\* Python values

NoneValue == [type |-> "NoneType"]
StrValue(s) == [type |-> "str", str |-> s]
IntValue(n) == [type |-> "int", int |-> n]
FloatValue(scaled, places) == [type |-> "float", scaled |-> scaled, places |-> places]
\* a dict: its items in insertion order
Dict(items) == [type |-> "dict", items |-> items]

----
\* Arithmetic of line 20: round(total / (1024 ** 3), 2)

GiB == 1073741824
Ndigits == 2

Scale == 10 ^ Ndigits
\* Scale / GiB in lowest terms is Mult / Chunk
Mult == Scale \div 4
Chunk == GiB \div 4
Limb == 2 ^ 14

\* a Python int too wide for one limb
Bytes(hi, lo) == [type |-> "int", hi |-> hi, lo |-> lo]

\* Mult * lo = quot * Chunk + rem, computed limb by limb
MulDiv(lo) ==
    LET m == lo \div Limb
        n == lo % Limb
        t == (Mult * n) \div Limb
        u == (Mult * n) % Limb
        s == Mult * m + t
    IN  [quot |-> s \div Limb, rem |-> (s % Limb) * Limb + u]

\* int(x * 100) / 100: the digits after the second are cut off
TruncGiB(total) == Mult * total.hi + MulDiv(total.lo).quot

\* Python rounds the exact quotient to the nearest multiple of 10^-Ndigits,
\* a tie going to the even neighbour
RoundGiB(total) ==
    LET md == MulDiv(total.lo)
        whole == Mult * total.hi + md.quot
    IN  IF 2 * md.rem > Chunk THEN whole + 1
        ELSE IF 2 * md.rem = Chunk THEN whole + (whole % 2)
        ELSE whole

----
\* What the platform and psutil facilities can answer

Errors == {"psutil.Error", "OSError"}

OsNames == {StrValue("Linux"), StrValue("Windows")}
OsVersions == {StrValue("#1 SMP"), StrValue("10.0.19045")}
\* platform.processor() is the empty string when the name is undetermined
Processors == {StrValue(""), StrValue("x86_64")}
\* psutil.cpu_count(logical=False) is None when the count is undetermined
CoreCounts == {NoneValue, IntValue(1), IntValue(4)}
\* psutil percentages are floats with one decimal, 0.0 to 100.0
Percents == {FloatValue(t, 1) : t \in {0, 125, 1000}}

\* lo values on both sides of every rounding boundary inside one Chunk:
\* Mult * lo / Chunk = k + 1/2
Boundary(k) ==
    LET half == Chunk \div 2
    IN  (2 * k + 1) * (half \div Mult) + ((2 * k + 1) * (half % Mult)) \div Mult

LoValues ==
    {0, Chunk \div 2 - 1, Chunk - 1}
        \cup {Boundary(k) + e : k \in 0 .. (Mult - 1), e \in {0, 1}}

\* 16 GiB is 64 chunks
TotalValues == {Bytes(hi, lo) : hi \in 0 .. MaxHi, lo \in LoValues} \cup {Bytes(64, 0)}
FewTotalValues == {Bytes(1, Chunk \div 2), Bytes(64, 0)}

\* The answers of a host: every domain in full
Host ==
    [system |-> OsNames, version |-> OsVersions, processor |-> Processors,
     cores |-> CoreCounts, totals |-> TotalValues, percents |-> Percents,
     errors |-> Errors]

\* A host whose answers vary in type, in value and in failure, one or two
\* values per query
SmallHost ==
    [system |-> {StrValue("Linux")}, version |-> {StrValue("#1 SMP")},
     processor |-> {StrValue("x86_64")}, cores |-> {NoneValue, IntValue(4)},
     totals |-> FewTotalValues, percents |-> {FloatValue(t, 1) : t \in {125, 1000}},
     errors |-> Errors]

\* The load reporter reads only percent: its totals are the few
VirtualMemory(Totals, Percentages) == [total : Totals, percent : Percentages]

----
\* Dictionaries, json.dumps and print

Field(k, v) == [key |-> k, value |-> v]

\* json.dumps(..., indent=4, ensure_ascii=False): one line per field, a
\* string quoted, a number as its digits, None as the literal null
JsonValue(v) ==
    CASE v.type = "str" -> [quoted |-> v.str]
      [] v.type = "int" -> [digits |-> v.int, places |-> 0]
      [] v.type = "float" -> [digits |-> v.scaled, places |-> v.places]
      [] v.type = "NoneType" -> [literal |-> "null"]

JsonDumps(mapping) ==
    [i \in 1 .. Len(mapping.items) |->
        [indent |-> 4, name |-> mapping.items[i].key,
         text |-> JsonValue(mapping.items[i].value)]]

Header(fn) == [kind |-> "header", fn |-> fn]
Report(fn, mapping) == [kind |-> "report", fn |-> fn, text |-> JsonDumps(mapping)]
Diagnostic(fn, e) == [kind |-> "diagnostic", fn |-> fn, error |-> e]

\* the version entry left out of the dictionary
InfoSnapshotNoVersion(system, version, processor, cores, vm) ==
    Dict(<< Field("OS", system),
            Field("CPU_type", processor),
            Field("CPU_core_count", cores),
            Field("Memory_size_GB", FloatValue(RoundGiB(vm.total), Ndigits)) >>)

InfoSnapshot(system, version, processor, cores, vm) ==
    Dict(<< Field("OS", system),
            Field("OS_version", version),
            Field("CPU_type", processor),
            Field("CPU_core_count", cores),
            Field("Memory_size_GB", FloatValue(RoundGiB(vm.total), Ndigits)) >>)

\* the percentages taken for fractions and multiplied by 100
LoadSnapshotTimes100(cpu, vm) ==
    Dict(<< Field("CPU_usage_percent", FloatValue(cpu.scaled * 100, cpu.places)),
            Field("Memory_usage_percent",
                  FloatValue(vm.percent.scaled * 100, vm.percent.places)) >>)

LoadSnapshot(cpu, vm) ==
    Dict(<< Field("CPU_usage_percent", cpu),
            Field("Memory_usage_percent", vm.percent) >>)

----
\* Control

InfoPcs == {"info_system", "info_version", "info_processor", "info_cpu_count",
            "info_memory", "info_print", "info_return", "info_except",
            "info_return_none"}
LoadPcs == {"load_cpu", "load_memory", "load_print", "load_return",
            "load_except", "load_return_none"}

Fn == IF pc \in InfoPcs THEN "get_mission_computer_info"
      ELSE IF pc \in LoadPcs THEN "get_mission_computer_load"
      ELSE "none"

Returned(q, v) == [query |-> q, raised |-> FALSE, value |-> v]
Raised(q, e) == [query |-> q, raised |-> TRUE, error |-> e]

Printed == SubSeq(console, base + 1, Len(console))

Init ==
    /\ pc = "main_header_info"
    /\ ret_to = "none"
    /\ self = <<>>
    /\ answers = <<>>
    /\ snapshot = NoneValue
    /\ exc = "none"
    /\ console = <<>>
    /\ base = 0
    /\ ret = NoneValue
    /\ history = <<>>

\* Entering a reporter: a fresh frame
Call(entry, to) ==
    /\ pc' = entry
    /\ ret_to' = to
    /\ answers' = <<>>
    /\ snapshot' = NoneValue
    /\ exc' = "none"
    /\ base' = Len(console)
    /\ UNCHANGED <<self, console, ret, history>>

\* the reporters share one dictionary kept on the instance
ReturnShared(result) ==
    LET merged == IF result = NoneValue THEN NoneValue ELSE Dict(self \o result.items)
    IN  /\ ret' = merged
        /\ self' = IF result = NoneValue THEN self ELSE merged.items
        /\ history' = Append(history,
                [fn |-> Fn, answers |-> answers, printed |-> Printed, result |-> merged])
        /\ pc' = ret_to
        /\ ret_to' = "none"
        /\ answers' = <<>>
        /\ snapshot' = NoneValue
        /\ exc' = "none"
        /\ base' = Len(console)
        /\ UNCHANGED console

\* Leaving a reporter with a result: the frame is dropped
Return(result) ==
    /\ ret' = result
    /\ history' = Append(history,
            [fn |-> Fn, answers |-> answers, printed |-> Printed, result |-> result])
    /\ pc' = ret_to
    /\ ret_to' = "none"
    /\ answers' = <<>>
    /\ snapshot' = NoneValue
    /\ exc' = "none"
    /\ base' = Len(console)
    /\ UNCHANGED <<self, console>>

\* except psutil.Error as e
HandlesPsutilOnly(e) == e = "psutil.Error"

\* except Exception as e: the clause matches every error the queries raise.
\* An exception no clause matches leaves the reporter and ends the process
\* with a traceback.
Handles(e) == e \in Errors

Unwind(e, handler) == IF Handles(e) THEN handler ELSE "traceback"

\* One query inside a try block: it returns a value or raises
Try(q, Values, errors, next, handler) ==
    /\ \/ \E v \in Values :
            /\ answers' = Append(answers, Returned(q, v))
            /\ pc' = next
            /\ exc' = exc
       \/ \E e \in errors :
            /\ answers' = Append(answers, Raised(q, e))
            /\ pc' = Unwind(e, handler)
            /\ exc' = e
    /\ UNCHANGED <<ret_to, self, snapshot, console, base, ret, history>>

Output(entry, next) ==
    /\ console' = Append(console, entry)
    /\ pc' = next
    /\ UNCHANGED <<ret_to, self, answers, snapshot, exc, base, ret, history>>

----
\* get_mission_computer_info

InfoSystem(host) ==
    /\ pc = "info_system"
    /\ Try("platform.system", host.system, host.errors, "info_version", "info_except")

InfoVersion(host) ==
    /\ pc = "info_version"
    /\ Try("platform.version", host.version, host.errors, "info_processor", "info_except")

InfoProcessor(host) ==
    /\ pc = "info_processor"
    /\ Try("platform.processor", host.processor, host.errors, "info_cpu_count", "info_except")

InfoCpuCount(host) ==
    /\ pc = "info_cpu_count"
    /\ Try("psutil.cpu_count", host.cores, host.errors, "info_memory", "info_except")

\* psutil.virtual_memory().total / (1024 ** 3), round, and the assignment
\* of the finished dictionary to info
InfoMemory(host) ==
    /\ pc = "info_memory"
    /\ \/ \E vm \in VirtualMemory(host.totals, host.percents) :
            /\ answers' = Append(answers, Returned("psutil.virtual_memory.total", vm.total))
            /\ snapshot' = InfoSnapshot(answers[1].value, answers[2].value,
                                        answers[3].value, answers[4].value, vm)
            /\ pc' = "info_print"
            /\ exc' = exc
       \/ \E e \in host.errors :
            /\ answers' = Append(answers, Raised("psutil.virtual_memory.total", e))
            /\ pc' = Unwind(e, "info_except")
            /\ exc' = e
            /\ snapshot' = snapshot
    /\ UNCHANGED <<ret_to, self, console, base, ret, history>>

InfoPrint ==
    /\ pc = "info_print"
    /\ Output(Report(Fn, snapshot), "info_return")

InfoReturn ==
    /\ pc = "info_return"
    /\ Return(snapshot)

\* the handler swallows the error without a message
InfoExceptSilent ==
    /\ pc = "info_except"
    /\ pc' = "info_return_none"
    /\ UNCHANGED <<ret_to, self, answers, snapshot, exc, console, base, ret, history>>

InfoExcept ==
    /\ pc = "info_except"
    /\ Output(Diagnostic(Fn, exc), "info_return_none")

\* the handler returns what was gathered before the failure
InfoReturnPartial ==
    /\ pc = "info_return_none"
    /\ Return(Dict([i \in 1 .. (Len(answers) - 1) |->
                       Field(answers[i].query, answers[i].value)]))

InfoReturnNone ==
    /\ pc = "info_return_none"
    /\ Return(NoneValue)

----
\* get_mission_computer_load

\* the two entries of the dictionary in the other order
LoadMemoryFirst(host) ==
    /\ pc = "load_cpu"
    /\ Try("psutil.virtual_memory.percent", host.percents, host.errors,
           "load_memory", "load_except")

\* psutil.cpu_percent(interval=1): blocks for the interval, then answers
LoadCpu(host) ==
    /\ pc = "load_cpu"
    /\ Try("psutil.cpu_percent", host.percents, host.errors, "load_memory", "load_except")

LoadMemory(host) ==
    /\ pc = "load_memory"
    /\ \/ \E vm \in VirtualMemory(FewTotalValues, host.percents) :
            /\ answers' = Append(answers, Returned("psutil.virtual_memory.percent", vm.percent))
            /\ snapshot' = LoadSnapshot(answers[1].value, vm)
            /\ pc' = "load_print"
            /\ exc' = exc
       \/ \E e \in host.errors :
            /\ answers' = Append(answers, Raised("psutil.virtual_memory.percent", e))
            /\ pc' = Unwind(e, "load_except")
            /\ exc' = e
            /\ snapshot' = snapshot
    /\ UNCHANGED <<ret_to, self, console, base, ret, history>>

LoadPrint ==
    /\ pc = "load_print"
    /\ Output(Report(Fn, snapshot), "load_return")

LoadReturn ==
    /\ pc = "load_return"
    /\ Return(snapshot)

LoadExcept ==
    /\ pc = "load_except"
    /\ Output(Diagnostic(Fn, exc), "load_return_none")

LoadReturnNone ==
    /\ pc = "load_return_none"
    /\ Return(NoneValue)

----
\* The __main__ driver

MainHeaderInfo ==
    /\ pc = "main_header_info"
    /\ Output(Header("get_mission_computer_info"), "main_call_info")

MainCallInfo ==
    /\ pc = "main_call_info"
    /\ Call("info_system", "main_header_load")

\* the driver gives up when the first reporter returned None
MainStopOnNone ==
    /\ pc = "main_header_load"
    /\ IF ret = NoneValue
       THEN /\ pc' = "done"
            /\ UNCHANGED <<ret_to, self, answers, snapshot, exc, console, base, ret, history>>
       ELSE Output(Header("get_mission_computer_load"), "main_call_load")

MainHeaderLoad ==
    /\ pc = "main_header_load"
    /\ Output(Header("get_mission_computer_load"), "main_call_load")

MainCallLoad ==
    /\ pc = "main_call_load"
    /\ Call("load_cpu", "done")

Reporters(host) ==
    \/ InfoSystem(host) \/ InfoVersion(host) \/ InfoProcessor(host)
    \/ InfoCpuCount(host) \/ InfoMemory(host) \/ InfoPrint \/ InfoReturn
    \/ InfoExcept \/ InfoReturnNone
    \/ LoadCpu(host) \/ LoadMemory(host) \/ LoadPrint \/ LoadReturn
    \/ LoadExcept \/ LoadReturnNone

Next ==
    \/ MainHeaderInfo \/ MainCallInfo \/ MainHeaderLoad \/ MainCallLoad
    \/ Reporters(Host)

Spec == Init /\ [][Next]_vars

----
\* A caller that uses one MissionComputer for any sequence of calls

InitCalls ==
    /\ pc = "idle"
    /\ ret_to = "none"
    /\ self = <<>>
    /\ answers = <<>>
    /\ snapshot = NoneValue
    /\ exc = "none"
    /\ console = <<>>
    /\ base = 0
    /\ ret = NoneValue
    /\ history = <<>>

CallerCallInfo ==
    /\ pc = "idle"
    /\ Len(history) < MaxCalls
    /\ Call("info_system", "idle")

CallerCallLoad ==
    /\ pc = "idle"
    /\ Len(history) < MaxCalls
    /\ Call("load_cpu", "idle")

NextCalls ==
    \/ CallerCallInfo \/ CallerCallLoad
    \/ Reporters(SmallHost)

SpecCalls == InitCalls /\ [][NextCalls]_vars

----
\* Properties

INFO == "get_mission_computer_info"
LOAD == "get_mission_computer_load"

CallIds == 1 .. Len(history)
Failed(c) == \E i \in 1 .. Len(c.answers) : c.answers[i].raised
Succeeded(c) == ~Failed(c)
NoDuplicate(as) ==
    \A i, j \in 1 .. Len(as) : as[i].query = as[j].query => i = j
Abs(x) == IF x < 0 THEN -x ELSE x

\* C1: whichever query of a reporter raises, the call prints a diagnostic
\* that carries the description of that failure, returns None, and the
\* exception does not leave the reporter: control is in the handler while
\* the exception is bound, and the process never ends with a traceback.
C1_FailureIsReportedAndAbsorbed ==
    /\ pc # "traceback"
    /\ exc # "none" =>
          pc \in {"info_except", "info_return_none", "load_except", "load_return_none"}
    /\ \A k \in CallIds :
          LET c == history[k]
          IN  \A i \in 1 .. Len(c.answers) :
                 c.answers[i].raised =>
                    /\ c.result = NoneValue
                    /\ \E j \in 1 .. Len(c.printed) :
                          c.printed[j] = Diagnostic(c.fn, c.answers[i].error)

\* both reporters have failed, the first at its last query, and the run
\* still reached its end
C1_Witness ==
    /\ pc = "done"
    /\ Len(history) = 2
    /\ Len(history[1].answers) = 5 /\ history[1].answers[5].raised
    /\ Len(history[2].answers) = 1 /\ history[2].answers[1].raised
    /\ history[1].answers[5].error # history[2].answers[1].error

\* C2: a call in which a query failed prints no report and returns no
\* mapping, the failed query is the last one the call issues, and no call
\* issues the same query twice.
C2_NoPartialResultNoRetry ==
    /\ NoDuplicate(answers)
    /\ \A i \in 1 .. Len(answers) : answers[i].raised => i = Len(answers)
    /\ (\E i \in 1 .. Len(answers) : answers[i].raised) =>
          /\ snapshot = NoneValue
          /\ \A j \in 1 .. Len(Printed) : Printed[j].kind # "report"
    /\ \A k \in CallIds :
          LET c == history[k]
          IN  /\ NoDuplicate(c.answers)
              /\ Len(c.answers) <= (IF c.fn = INFO THEN 5 ELSE 2)
              /\ \A i \in 1 .. Len(c.answers) :
                    c.answers[i].raised =>
                       /\ i = Len(c.answers)
                       /\ c.result = NoneValue
                       /\ \A j \in 1 .. Len(c.printed) : c.printed[j].kind # "report"

\* a static-info call that failed at its fifth query, after four answers
C2_Witness ==
    \E k \in CallIds :
       /\ history[k].fn = INFO
       /\ Len(history[k].answers) = 5
       /\ history[k].answers[5].raised
       /\ ~history[k].answers[4].raised

\* C3: the driver prints the static-info header, runs the static info
\* reporter, prints the load header, runs the load reporter and is done:
\* the console is always a prefix of header, report or diagnostic, header,
\* report or diagnostic; the load reporter has run when the driver is done,
\* whatever the first call returned; the driver never stops before the end.
C3_DriverOrder ==
    /\ Len(console) <= 4
    /\ Len(console) >= 1 => console[1] = Header(INFO)
    /\ Len(console) >= 2 =>
          console[2].fn = INFO /\ console[2].kind \in {"report", "diagnostic"}
    /\ Len(console) >= 3 => console[3] = Header(LOAD)
    /\ Len(console) >= 4 =>
          console[4].fn = LOAD /\ console[4].kind \in {"report", "diagnostic"}
    /\ pc \in InfoPcs => Len(console) \in {1, 2} /\ history = <<>>
    /\ pc \in LoadPcs => Len(console) \in {3, 4} /\ Len(history) = 1
    /\ Len(history) >= 1 => history[1].fn = INFO
    /\ pc = "done" =>
          /\ Len(console) = 4
          /\ Len(history) = 2
          /\ history[2].fn = LOAD
    /\ pc = "done" \/ ENABLED Next

\* the driver is done, the first reporter returned None and the second
\* one ran and returned a mapping
C3_Witness ==
    /\ pc = "done"
    /\ Len(history) = 2
    /\ history[1].result = NoneValue
    /\ history[2].fn = LOAD
    /\ history[2].result # NoneValue

InfoKeys == <<"OS", "OS_version", "CPU_type", "CPU_core_count", "Memory_size_GB">>

\* C4: the mapping a successful static-info call returns has exactly the
\* five fields OS, OS_version, CPU_type, CPU_core_count, Memory_size_GB, and
\* its memory field is a float of two decimal places that is not negative.
C4_FiveFieldsAndMemory ==
    \A k \in CallIds :
       LET c == history[k]
       IN  (c.fn = INFO /\ Succeeded(c)) =>
              /\ Len(c.result.items) = 5
              /\ [i \in 1 .. 5 |-> c.result.items[i].key] = InfoKeys
              /\ c.result.items[5].value.type = "float"
              /\ c.result.items[5].value.places = 2
              /\ c.result.items[5].value.scaled >= 0

\* a successful call on a host with 0.375 GiB of memory: 0.38
C4_Witness ==
    \E k \in CallIds :
       /\ history[k].fn = INFO
       /\ Succeeded(history[k])
       /\ history[k].result.items[5].value.scaled = 38

InRange(v) ==
    /\ v.type = "float"
    /\ 0 <= v.scaled
    /\ v.scaled <= 100 * (10 ^ v.places)

\* C5: both fields of the mapping a successful load call returns are
\* percentages between 0 and 100, for every answer of the facility.
C5_PercentagesInRange ==
    \A k \in CallIds :
       LET c == history[k]
       IN  (c.fn = LOAD /\ Succeeded(c)) =>
              /\ Len(c.result.items) = 2
              /\ InRange(c.result.items[1].value)
              /\ InRange(c.result.items[2].value)

\* a load call that reported 100.0 for the processor and 0.0 for the memory
C5_Witness ==
    \E k \in CallIds :
       /\ history[k].fn = LOAD
       /\ Succeeded(history[k])
       /\ history[k].result.items[1].value.scaled = 1000
       /\ history[k].result.items[2].value.scaled = 0

\* C6: every value of a mapping returned by a successful call is a string,
\* an integer or a float, and the core count of a static-info mapping is an
\* integer.
C6_ValuesAreStrIntFloat ==
    \A k \in CallIds :
       LET c == history[k]
       IN  Succeeded(c) =>
              /\ \A i \in 1 .. Len(c.result.items) :
                    c.result.items[i].value.type \in {"str", "int", "float"}
              /\ c.fn = INFO => c.result.items[4].value.type = "int"

Shape(result) ==
    IF result = NoneValue THEN <<>>
    ELSE [i \in 1 .. Len(result.items) |->
             <<result.items[i].key, result.items[i].value.type>>]

AnswerShape(a) ==
    IF a.raised THEN <<a.query, "raised">> ELSE <<a.query, a.value.type>>

SameWay(as, bs) ==
    /\ Len(as) = Len(bs)
    /\ \A i \in 1 .. Len(as) : AnswerShape(as[i]) = AnswerShape(bs[i])

\* C7: two calls of the same reporter, anywhere in a sequence of calls,
\* that get the same answers return the same mapping and print the same
\* text; two that get answers of the same kind return mappings of the same
\* fields, order and types; and the instance has no attribute, before and
\* after every call.
C7_CallsAreIndependent ==
    /\ self = <<>>
    /\ \A k, l \in CallIds :
          LET c == history[k]
              d == history[l]
          IN  c.fn = d.fn =>
                 /\ c.answers = d.answers =>
                       c.result = d.result /\ c.printed = d.printed
                 /\ SameWay(c.answers, d.answers) =>
                       Shape(c.result) = Shape(d.result)

\* the load reporter was called, then the static info reporter, then the
\* load reporter again with the same answers as the first time
C7_Witness ==
    /\ Len(history) = 3
    /\ history[1].fn = LOAD
    /\ history[2].fn = INFO
    /\ history[3].fn = LOAD
    /\ Succeeded(history[1]) /\ Succeeded(history[2])
    /\ history[3].answers = history[1].answers

\* h hundredths is a nearest integer to 100 * B / 1024^3, that is
\* |h * Chunk - Mult * B| <= Chunk / 2, for B = hi * Chunk + lo
Nearest(h, total) ==
    LET d == h - Mult * total.hi
        a == d * Limb - Mult * (total.lo \div Limb)
    IN  /\ d \in 0 .. Mult
        /\ Abs(a) <= Limb
        /\ 2 * Abs(a * Limb - Mult * (total.lo % Limb)) <= Chunk

\* C8: the memory field of a successful static-info mapping is, in
\* hundredths of a GiB, a nearest integer to 100 * B / 1024^3 for the byte
\* count B the system returned; 16 GiB gives 16.0.
C8_MemoryIsRoundedGiB ==
    \A k \in CallIds :
       LET c == history[k]
       IN  (c.fn = INFO /\ Succeeded(c)) =>
              /\ Nearest(c.result.items[5].value.scaled, c.answers[5].value)
              /\ c.answers[5].value = Bytes(64, 0) =>
                    c.result.items[5].value.scaled = 1600

\* a byte count just above a rounding boundary was rounded up
C8_Witness ==
    \E k \in CallIds :
       /\ history[k].fn = INFO
       /\ Succeeded(history[k])
       /\ history[k].answers[5].value = Bytes(2, Boundary(3) + 1)
       /\ history[k].result.items[5].value.scaled = 2 * Mult + 4

C10_OneOutputPerCall ==
    /\ pc \in {"info_return", "load_return"} =>
          Printed = <<Report(Fn, snapshot)>>
    /\ pc \in {"info_return_none", "load_return_none"} =>
          Len(Printed) = 1 /\ Printed[1].kind = "diagnostic"
    /\ pc \in (InfoPcs \cup LoadPcs) \ {"info_return", "load_return",
                                        "info_return_none", "load_return_none"} =>
          Printed = <<>>
    /\ \A k \in CallIds :
          LET c == history[k]
          IN  /\ Len(c.printed) = 1
              /\ c.printed[1].kind \in {"report", "diagnostic"}
              /\ c.result # NoneValue <=> c.printed[1].kind = "report"
              /\ c.result # NoneValue => c.printed[1] = Report(c.fn, c.result)

\* the run is done with a report from one reporter and a diagnostic from
\* the other
C10_Witness ==
    /\ pc = "done"
    /\ Len(history) = 2
    /\ history[1].printed[1].kind = "diagnostic"
    /\ history[2].printed[1].kind = "report"

====
